---- MODULE Spec2Model ----
(***************************************************************************)
(* Model of the hum-to-music repository:                                   *)
(*   - analyzePitch (utils/analyzePitch): the windowed pitch-analysis loop *)
(*     with its progress callback                      (specification Spec)*)
(*   - autocorrelationPitchDetection: normalisation, autocorrelation, peak *)
(*     search, parabolic interpolation             (specification SpecAcf) *)
(*   - the App component's recording / analysis state and its playback    *)
(*     (playWithTone, stopPlayback, the stop timer)  (specification SpecApp)*)
(*                                                                         *)
(* Numbers.  JavaScript numbers are modelled exactly where the code only   *)
(* uses integers (lengths, offsets, counters).  A quotient a / b is kept   *)
(* as the unreduced pair [num |-> a, den |-> b]; den = 0 stands for the    *)
(* IEEE-754 results of a division by zero (num > 0: +Infinity, num < 0:    *)
(* -Infinity, num = 0: NaN).  Sample amplitudes are integers in units of   *)
(* 1/1000 and frequencies are integers in Hz.  Arithmetic is exact: the    *)
(* rounding of Float32Array stores and of Math.sqrt is not modelled.       *)
(*                                                                         *)
(* Buffers.  channelData is a sequence of runs of stepSize samples of one  *)
(* amplitude each (the last run may be shorter), so that the rms of every  *)
(* segment the loop slices is computed from the samples.  The estimate of  *)
(* a 4096-sample segment is an input of the analyzePitch model; the        *)
(* estimator itself is modelled on short buffers in SpecAcf.               *)
(***************************************************************************)
EXTENDS Integers, Sequences, FiniteSets, TLC

VARIABLES
    \* ---- analyzePitch ----
    pc,                 \* position inside analyzePitch
    length,             \* channelData.length
    blocks,             \* channelData: amplitude of each run of stepSize samples
    progressCallback,   \* TRUE iff the optional progressCallback was passed
    totalWindows,
    processedWindows,
    i,                  \* loop variable: offset of the current window
    pitch,              \* pitch of the current iteration (block scoped)
    threw,              \* whether the try block of the current iteration threw
    notes,
    offsets,            \* history: offsets of the segments sliced so far
    outcomes,           \* history: what happened to each segment
    reported,           \* history: values passed to progressCallback
    result              \* the returned array, once pc = "done"

VARIABLES
    \* ---- autocorrelationPitchDetection ----
    apc,                \* position inside autocorrelationPitchDetection
    buf,                \* the samples passed in
    sampleRate,
    max,                \* the largest |buf[k]|
    correlation,        \* correlation[lag + 1], in units of 1 / max^2
    peakIndex,          \* the lag the search of lines 91-96 ends with
    refined,            \* peakIndex after lines 98-105, as a quotient
    estimate            \* the returned value, once apc = "done"

VARIABLES
    \* ---- App ----
    isRecording,
    mediaRecorderRef,   \* 0 (null) or the recorder mediaRecorderRef.current holds
    recorders,          \* state of every MediaRecorder created so far
    permissionRequests, \* getUserMedia calls not yet settled
    isAnalyzing,
    analysisProgress,
    detectedNotes,      \* 0 (initial []) or the recording whose notes it holds
    inFlight,           \* recordings whose analyzePitch call has not settled
    analysed,           \* history: recordings whose analyzePitch call resolved
    lastStopped         \* history: the recorder stopRecording stopped last

VARIABLES
    \* ---- App: playback ----
    isPlaying,
    startingPlays,      \* playWithTone calls awaiting Tone.start()
    partsRef,           \* 0, or the playback whose parts pianoPartRef / drumPartRef
                        \* hold undisposed
    stopTimers,         \* playbacks whose setTimeout(stopPlayback, ...) is pending
    endedBy             \* history, per playback: NotEnded, ByUser, or the playback
                        \* whose stop timer ended it

playVars == <<isPlaying, startingPlays, partsRef, stopTimers, endedBy>>

pipeVars == <<pc, length, blocks, progressCallback, totalWindows, processedWindows,
              i, pitch, threw, notes, offsets, outcomes, reported, result>>

acfVars == <<apc, buf, sampleRate, max, correlation, peakIndex, refined, estimate>>

appVars == <<isRecording, mediaRecorderRef, recorders, permissionRequests, isAnalyzing,
             analysisProgress, detectedNotes, inFlight, analysed, lastStopped, playVars>>

vars == <<pipeVars, acfVars, appVars>>

----------------------------------------------------------------------------
(* Program constants of analyzePitch *)

windowSize == 4096
stepSize == 1024
\* rms < 0.01, in units of 1/1000
silenceThreshold == 10
minPitch == 60
maxPitch == 1000
minMidi == 48
maxMidi == 84

(* Bounds of the model *)

\* buffers hold up to MaxWindows whole steps beyond one window (plus a rest)
MaxWindows == 3

\* amplitudes (1/1000) a run of samples may have: four runs of 10 have an
\* rms of exactly 0.01, three of 10 and one of 0 are below it
AmpLevels == {0, 10}

\* channelData.length: around every multiple of stepSize past one window,
\* exactly on it, one sample more, one sample less than the next
Lengths ==
    {0} \cup { windowSize + k * stepSize + r :
                 k \in -1 .. MaxWindows, r \in {0, 1, stepSize - 1} }

\* null, in `number | null'
Null == -1

\* what autocorrelationPitchDetection may return for a 4096-sample segment:
\* null, 0 (sampleRate / Infinity) or a positive frequency
PitchEstimates == {Null, 0, 60, 127, 128, 999, 1000}

----------------------------------------------------------------------------
(* Pure helpers *)

\* a / b as JavaScript computes it on integers: the exact quotient, or
\* +-Infinity / NaN when b = 0
Divide(a, b) == [num |-> a, den |-> b]

IsFiniteNumber(v) == v.den # 0

\* v <= w for finite quotients
Leq(v, w) ==
    LET sv == IF v.den < 0 THEN -1 ELSE 1
        sw == IF w.den < 0 THEN -1 ELSE 1
    IN  (sv * v.num) * (sw * w.den) <= (sw * w.num) * (sv * v.den)

EqualsInt(v, n) == v.den # 0 /\ v.num = n * v.den

\* Math.floor((channelData.length - windowSize) / stepSize)
TotalWindows(len) == (len - windowSize) \div stepSize

NumBlocks(len) == (len + stepSize - 1) \div stepSize

RECURSIVE SumSeq(_)
SumSeq(s) == IF s = <<>> THEN 0 ELSE Head(s) + SumSeq(Tail(s))

\* segment.reduce((sum, x) => sum + x * x, 0) for channelData.slice(at, at + windowSize):
\* the segment is the windowSize \div stepSize runs starting at run at \div stepSize
SumSquares(at) ==
    LET first == at \div stepSize + 1
        runs == windowSize \div stepSize
    IN  SumSeq([k \in 1 .. runs |-> stepSize * blocks[first + k - 1] * blocks[first + k - 1]])

\* rms < 0.01, with rms = sqrt(sumSquares / segment.length); compared squared
IsSilent(at) == SumSquares(at) < silenceThreshold * silenceThreshold * windowSize

\* the loop condition  i < channelData.length - windowSize
LoopCondition == i < length - windowSize

\* pitch && pitch > 60 && pitch < 1000
InFrequencyRangeInclusive1000(f) == f # Null /\ f # 0 /\ f > minPitch /\ f <= maxPitch
InFrequencyRange(f) == f # Null /\ f # 0 /\ f > minPitch /\ f < maxPitch

\* lowest integer frequency of each MIDI number 36, 37, ...:
\* 69 + Math.round(12 * Math.log2(f / 440))
MidiCutoff ==
    << 64, 68, 72, 76, 81, 85, 90, 96, 101, 107, 114, 120,
       128, 135, 143, 152, 161, 170, 180, 191, 202, 214, 227, 240,
       255, 270, 286, 303, 321, 340, 360, 381, 404, 428, 453, 480,
       509, 539, 571, 605, 641, 679, 719, 762, 807, 855, 906, 960,
       1017, 1078 >>

\* Frequency(pitch).toMidi(), for 60 <= f <= 1100
FreqToMidi(f) == 35 + Cardinality({k \in 1 .. Len(MidiCutoff) : MidiCutoff[k] <= f})

\* midi >= 48 && midi <= 84
InMidiRange(m) == m >= minMidi /\ m <= maxMidi

NoteNames == <<"C", "C#", "D", "D#", "E", "F", "F#", "G", "G#", "A", "A#", "B">>

\* Frequency(midi, 'midi').toNote(): pitch class and octave
MidiToNote(m) == <<NoteNames[(m % 12) + 1], m \div 12 - 1>>

----------------------------------------------------------------------------
(* analyzePitch *)

IdlePipeline ==
    /\ pc = "idle"
    /\ length = 0
    /\ blocks = <<>>
    /\ progressCallback = FALSE
    /\ totalWindows = 0
    /\ processedWindows = 0
    /\ i = 0
    /\ pitch = Null
    /\ threw = FALSE
    /\ notes = <<>>
    /\ offsets = <<>>
    /\ outcomes = <<>>
    /\ reported = <<>>
    /\ result = <<>>

InitPipeline ==
    /\ pc = "entry"
    /\ length \in Lengths
    /\ blocks \in [1 .. NumBlocks(length) -> AmpLevels]
    /\ progressCallback \in BOOLEAN
    /\ totalWindows = 0
    /\ processedWindows = 0
    /\ i = 0
    /\ pitch = Null
    /\ threw = FALSE
    /\ notes = <<>>
    /\ offsets = <<>>
    /\ outcomes = <<>>
    /\ reported = <<>>
    /\ result = <<>>

\* lines 13-19, and the loop initialisation of line 31
Setup ==
    /\ pc = "entry"
    /\ totalWindows' = TotalWindows(length)
    /\ processedWindows' = 0
    /\ notes' = <<>>
    /\ i' = 0
    /\ pc' = "loop"
    /\ UNCHANGED <<acfVars, appVars, length, blocks, progressCallback, pitch, threw, offsets, outcomes,
                   reported, result>>

\* lines 31-36: a segment is sliced and the silence gate rejects it
SilentSegment ==
    /\ pc = "loop"
    /\ LoopCondition
    /\ IsSilent(i)
    /\ offsets' = Append(offsets, i)
    /\ outcomes' = Append(outcomes, "silent")
    /\ pc' = "silent"
    /\ UNCHANGED <<acfVars, appVars, length, blocks, progressCallback, totalWindows, processedWindows,
                   i, pitch, threw, notes, reported, result>>

\* if (progressCallback) progressCallback(processedWindows / totalWindows)
Callback(n) ==
    IF progressCallback THEN Append(reported, Divide(n, totalWindows)) ELSE reported

\* a `continue' that forgets the progress report
ReportSilentWithoutProgress ==
    /\ pc = "silent"
    /\ i' = i + stepSize
    /\ pc' = "loop"
    /\ UNCHANGED <<acfVars, appVars, length, blocks, progressCallback, totalWindows, processedWindows,
                   pitch, threw, notes, offsets, outcomes, reported, result>>

\* lines 37-39 (and the i += stepSize of line 31 that `continue' reaches)
ReportSilent ==
    /\ pc = "silent"
    /\ processedWindows' = processedWindows + 1
    /\ reported' = Callback(processedWindows + 1)
    /\ i' = i + stepSize
    /\ pc' = "loop"
    /\ UNCHANGED <<acfVars, appVars, length, blocks, progressCallback, totalWindows, pitch, threw, notes,
                   offsets, outcomes, result>>

\* lines 45-55 for an estimate f: the outcome and the notes array afterwards;
\* fails: whether Frequency(...).toMidi() / toNote() throws
Outcome(f, fails) ==
    IF ~InFrequencyRange(f) THEN (IF f = Null \/ f = 0 THEN "noPitch" ELSE "frequencyOutOfRange")
    ELSE IF fails THEN "namingFailed"
    ELSE IF ~InMidiRange(FreqToMidi(f)) THEN "midiOutOfRange"
    ELSE "accepted"

\* lines 31-36 and 42-55: a segment passes the gate, is tapered, estimated and
\* quantised. The estimate of a 4096-sample segment and the failure of the
\* naming library are inputs.
VoicedSegment ==
    /\ pc = "loop"
    /\ LoopCondition
    /\ ~IsSilent(i)
    /\ \E f \in PitchEstimates, fails \in BOOLEAN :
         /\ pitch' = f
         /\ threw' = (InFrequencyRange(f) /\ fails)
         /\ outcomes' = Append(outcomes, Outcome(f, fails))
         /\ notes' = IF Outcome(f, fails) = "accepted"
                        THEN Append(notes, MidiToNote(FreqToMidi(f)))
                        ELSE notes
    /\ offsets' = Append(offsets, i)
    /\ pc' = "voiced"
    /\ UNCHANGED <<acfVars, appVars, length, blocks, progressCallback, totalWindows, processedWindows,
                   i, reported, result>>

\* lines 57-58, and the i += stepSize of line 31
ReportVoiced ==
    /\ pc = "voiced"
    /\ processedWindows' = processedWindows + 1
    /\ reported' = Callback(processedWindows + 1)
    /\ i' = i + stepSize
    /\ pitch' = Null
    /\ threw' = FALSE
    /\ pc' = "loop"
    /\ UNCHANGED <<acfVars, appVars, length, blocks, progressCallback, totalWindows, notes,
                   offsets, outcomes, result>>

\* line 31 (loop exit) and line 61
Return ==
    /\ pc = "loop"
    /\ ~LoopCondition
    /\ result' = notes
    /\ pc' = "done"
    /\ UNCHANGED <<acfVars, appVars, length, blocks, progressCallback, totalWindows, processedWindows,
                   i, pitch, threw, notes, offsets, outcomes, reported>>

NextPipeline ==
    \/ Setup
    \/ SilentSegment
    \/ ReportSilent
    \/ VoicedSegment
    \/ ReportVoiced
    \/ Return

----------------------------------------------------------------------------
(* autocorrelationPitchDetection *)

(* Bounds of the model *)

\* buffers of 1 .. MaxBufLen samples
MaxBufLen == 8

\* sample values; normalisation divides by the largest magnitude, so only the
\* ratios of the samples matter
SampleValues == {-1, 0, 1}

SampleRates == {500, 1000, 2000, 44100}

Abs(x) == IF x < 0 THEN -x ELSE x

\* lines 67-70: max = Math.max(max, Math.abs(buf[k])), from max = 0
RECURSIVE MaxAbs(_)
MaxAbs(b) ==
    IF b = <<>> THEN 0
    ELSE LET m == MaxAbs(Tail(b)) IN IF Abs(Head(b)) > m THEN Abs(Head(b)) ELSE m

\* new Float32Array(buf.length / 2): the length is truncated to an integer
CorrelationLength(b) == Len(b) \div 2

\* lines 78-84: correlation[lag] = sum of normalized[k] * normalized[k + lag]
\* for 0 <= k < buf.length - lag, with normalized[k] = buf[k] / max; kept as
\* the numerator over the common denominator max * max
Correlation(b) ==
    [lagp \in 1 .. CorrelationLength(b) |->
        SumSeq([k \in 1 .. Len(b) - (lagp - 1) |-> b[k] * b[k + lagp - 1]])]

\* Math.floor(sampleRate / 1000)
MinLag(sr) == sr \div 1000

\* correlation[k] > maxCorrelation
ExceedsOrEquals(c, maxCorrelation) == c >= maxCorrelation
Exceeds(c, maxCorrelation) == c > maxCorrelation

\* lines 91-96, from index k on; found: maxCorrelation is no longer -Infinity
RECURSIVE PeakSearch(_, _, _, _, _)
PeakSearch(corr, k, peak, found, maxCorrelation) ==
    IF ~(k < Len(corr)) THEN peak
    ELSE IF ~found \/ Exceeds(corr[k + 1], maxCorrelation)
         THEN PeakSearch(corr, k + 1, k, TRUE, corr[k + 1])
         ELSE PeakSearch(corr, k + 1, peak, found, maxCorrelation)

\* lines 87-96
FindPeak(corr, sr) == PeakSearch(corr, MinLag(sr), 0, FALSE, 0)

\* peakIndex > 0 && peakIndex < correlation.length - 1
IsInterior(corr, p) == p > 0 /\ p < Len(corr) - 1

\* 2 * (alpha - 2 * beta + gamma)
Denominator(corr, p) == 2 * (corr[p] - 2 * corr[p + 1] + corr[p + 2])

\* line 103: offset = (alpha - gamma) / (2 * (alpha - 2 * beta + gamma))
Offset(corr, p) == Divide(corr[p] - corr[p + 2], Denominator(corr, p))

\* p + q for an integer p and a quotient q (Infinity and NaN are absorbing)
AddInt(p, q) == IF q.den = 0 THEN q ELSE Divide(p * q.den + q.num, q.den)

\* lines 99-105: peakIndex afterwards
Refine(corr, p) == IF IsInterior(corr, p) THEN AddInt(p, Offset(corr, p)) ELSE Divide(p, 1)

\* q > 0 (false for NaN and -Infinity, true for +Infinity)
IsPositive(q) ==
    IF q.den = 0 THEN q.num > 0
    ELSE (q.num > 0 /\ q.den > 0) \/ (q.num < 0 /\ q.den < 0)

\* line 107: peakIndex > 0 ? sampleRate / peakIndex : null
\* (sampleRate / Infinity is 0)
ReturnValue(sr, q) ==
    IF IsPositive(q)
        THEN [null |-> FALSE,
              value |-> IF q.den = 0 THEN Divide(0, 1) ELSE Divide(sr * q.den, q.num)]
        ELSE [null |-> TRUE, value |-> Divide(0, 1)]

IdleAcf ==
    /\ apc = "idle"
    /\ buf = <<>>
    /\ sampleRate = 0
    /\ max = 0
    /\ correlation = <<>>
    /\ peakIndex = 0
    /\ refined = Divide(0, 1)
    /\ estimate = [null |-> TRUE, value |-> Divide(0, 1)]

InitAcf ==
    /\ apc = "entry"
    /\ buf \in UNION {[1 .. n -> SampleValues] : n \in 1 .. MaxBufLen}
    /\ sampleRate \in SampleRates
    /\ max = 0
    /\ correlation = <<>>
    /\ peakIndex = 0
    /\ refined = Divide(0, 1)
    /\ estimate = [null |-> TRUE, value |-> Divide(0, 1)]

\* lines 66-71 with max === 0: return null
ReturnNullOnZeroMax ==
    /\ apc = "entry"
    /\ MaxAbs(buf) = 0
    /\ max' = 0
    /\ estimate' = [null |-> TRUE, value |-> Divide(0, 1)]
    /\ apc' = "done"
    /\ UNCHANGED <<pipeVars, appVars, buf, sampleRate, correlation, peakIndex, refined>>

\* lines 66-84: normalise and correlate
Correlate ==
    /\ apc = "entry"
    /\ MaxAbs(buf) # 0
    /\ max' = MaxAbs(buf)
    /\ correlation' = Correlation(buf)
    /\ apc' = "correlated"
    /\ UNCHANGED <<pipeVars, appVars, buf, sampleRate, peakIndex, refined, estimate>>

\* lines 86-96
Search ==
    /\ apc = "correlated"
    /\ peakIndex' = FindPeak(correlation, sampleRate)
    /\ apc' = "searched"
    /\ UNCHANGED <<pipeVars, appVars, buf, sampleRate, max, correlation, refined, estimate>>

\* lines 98-105
Interpolate ==
    /\ apc = "searched"
    /\ refined' = Refine(correlation, peakIndex)
    /\ apc' = "refined"
    /\ UNCHANGED <<pipeVars, appVars, buf, sampleRate, max, correlation, peakIndex, estimate>>

\* line 107
ReturnEstimate ==
    /\ apc = "refined"
    /\ estimate' = ReturnValue(sampleRate, refined)
    /\ apc' = "done"
    /\ UNCHANGED <<pipeVars, appVars, buf, sampleRate, max, correlation, peakIndex, refined>>

NextAcf ==
    \/ ReturnNullOnZeroMax
    \/ Correlate
    \/ Search
    \/ Interpolate
    \/ ReturnEstimate

----------------------------------------------------------------------------
(* App: recording and analysis *)

(* Bound of the model *)

\* startRecording is clicked at most MaxRecordings times
MaxRecordings == 3

\* values setAnalysisProgress(Math.floor(progress * 100)) may leave behind
\* when an analysis returns: none reported, the last of a whole-step buffer
ProgressPercents == {0, 100}

IdleApp ==
    /\ isRecording = FALSE
    /\ mediaRecorderRef = 0
    /\ recorders = <<>>
    /\ permissionRequests = 0
    /\ isAnalyzing = FALSE
    /\ analysisProgress = 0
    /\ detectedNotes = 0
    /\ inFlight = {}
    /\ analysed = {}
    /\ lastStopped = 0
    /\ isPlaying = FALSE
    /\ startingPlays = 0
    /\ partsRef = 0
    /\ stopTimers = {}
    /\ endedBy = <<>>

\* lines 8-29: the state of the first render
InitApp == IdleApp

Clicks == Len(recorders) + permissionRequests

\* lines 88-90: the Start button (disabled while isRecording, line 282) is
\* clicked and startRecording awaits getUserMedia
StartRecordingClick ==
    /\ ~isRecording
    /\ Clicks < MaxRecordings
    /\ permissionRequests' = permissionRequests + 1
    /\ UNCHANGED <<pipeVars, acfVars, playVars, isRecording, mediaRecorderRef, recorders,
                   isAnalyzing, analysisProgress, detectedNotes, inFlight, analysed,
                   lastStopped>>

\* lines 91-107: getUserMedia resolved
StartRecordingGranted ==
    /\ permissionRequests > 0
    /\ permissionRequests' = permissionRequests - 1
    /\ recorders' = Append(recorders, "recording")
    /\ mediaRecorderRef' = Len(recorders) + 1
    /\ isRecording' = TRUE
    /\ UNCHANGED <<pipeVars, acfVars, playVars, isAnalyzing, analysisProgress, detectedNotes,
                   inFlight, analysed, lastStopped>>

\* lines 108-111: getUserMedia rejected
StartRecordingDenied ==
    /\ permissionRequests > 0
    /\ permissionRequests' = permissionRequests - 1
    /\ UNCHANGED <<pipeVars, acfVars, playVars, isRecording, mediaRecorderRef, recorders,
                   isAnalyzing, analysisProgress, detectedNotes, inFlight, analysed,
                   lastStopped>>

\* lines 142-146: the Stop button (disabled unless isRecording, line 287);
\* stop() queues the recorder's stop event
StopRecording ==
    /\ isRecording
    /\ IF mediaRecorderRef # 0 /\ recorders[mediaRecorderRef] = "recording"
          THEN /\ recorders' = [recorders EXCEPT ![mediaRecorderRef] = "stopping"]
               /\ lastStopped' = mediaRecorderRef
          ELSE UNCHANGED <<recorders, lastStopped>>
    /\ isRecording' = FALSE
    /\ UNCHANGED <<pipeVars, acfVars, playVars, mediaRecorderRef, permissionRequests, isAnalyzing,
                   analysisProgress, detectedNotes, inFlight, analysed>>

\* lines 99-103 and 114-119: the stop event of recorder r; analyzeRecording
\* runs up to its await
OnStop(r) ==
    /\ recorders[r] = "stopping"
    /\ recorders' = [recorders EXCEPT ![r] = "inactive"]
    /\ isAnalyzing' = TRUE
    /\ analysisProgress' = 0
    /\ inFlight' = inFlight \cup {r}
    /\ UNCHANGED <<pipeVars, acfVars, playVars, isRecording, mediaRecorderRef, permissionRequests,
                   detectedNotes, analysed, lastStopped>>

\* lines 119-133 and 137-139: analyzePitch of recording r resolved
AnalysisResolved(r) ==
    /\ r \in inFlight
    /\ inFlight' = inFlight \ {r}
    /\ analysed' = analysed \cup {r}
    /\ \E percent \in ProgressPercents : analysisProgress' = percent
    /\ detectedNotes' = r
    /\ isAnalyzing' = FALSE
    /\ UNCHANGED <<pipeVars, acfVars, playVars, isRecording, mediaRecorderRef, recorders,
                   permissionRequests, lastStopped>>

\* lines 134-139: analyzePitch of recording r rejected (the blob cannot be decoded)
AnalysisRejected(r) ==
    /\ r \in inFlight
    /\ inFlight' = inFlight \ {r}
    /\ isAnalyzing' = FALSE
    /\ UNCHANGED <<pipeVars, acfVars, playVars, isRecording, mediaRecorderRef, recorders,
                   permissionRequests, analysisProgress, detectedNotes, analysed,
                   lastStopped>>

(* App: playback *)

\* playWithTone gets past its first line at most MaxPlaybacks times
MaxPlaybacks == 2

\* values of endedBy other than a playback's number
NotEnded == 0
ByUser == -1

recordingVars == <<isRecording, mediaRecorderRef, recorders, permissionRequests,
                   isAnalyzing, analysisProgress, detectedNotes, inFlight, analysed,
                   lastStopped>>

\* lines 148-154: endedBy after stopPlayback has run for `cause'; the parts
\* the refs hold are disposed and isPlaying becomes false
EndedAfterStop(cause) ==
    IF partsRef # 0 /\ endedBy[partsRef] = NotEnded
        THEN [endedBy EXCEPT ![partsRef] = cause]
        ELSE endedBy

\* lines 156-159: a Play button (disabled while isPlaying, lines 367-372) is
\* clicked with notes to play, and playWithTone awaits Tone.start(). The
\* notes of an analysed recording are taken to be non-empty; with no notes
\* the call returns at line 157.
PlayClick ==
    /\ ~isPlaying
    /\ detectedNotes # 0
    /\ Len(endedBy) + startingPlays < MaxPlaybacks
    /\ startingPlays' = startingPlays + 1
    /\ UNCHANGED <<pipeVars, acfVars, recordingVars, isPlaying, partsRef, stopTimers,
                   endedBy>>

\* lines 160-216: Tone.start() resolved: stopPlayback(), new parts, playback
\* started and its stop timer scheduled. A playback still running (a second
\* click before the first call set isPlaying) is replaced, isPlaying stays true.
PlayStart ==
    /\ startingPlays > 0
    /\ startingPlays' = startingPlays - 1
    /\ endedBy' = Append(endedBy, NotEnded)
    /\ partsRef' = Len(endedBy) + 1
    /\ isPlaying' = TRUE
    /\ stopTimers' = stopTimers \cup {Len(endedBy) + 1}
    /\ UNCHANGED <<pipeVars, acfVars, recordingVars>>

\* lines 148-154, from the Stop button (disabled unless isPlaying, line 377)
StopPlaybackClick ==
    /\ isPlaying
    /\ endedBy' = EndedAfterStop(ByUser)
    /\ partsRef' = 0
    /\ isPlaying' = FALSE
    /\ UNCHANGED <<pipeVars, acfVars, recordingVars, startingPlays, stopTimers>>

\* lines 216 and 148-154: the stop timer that playback p scheduled fires
StopTimerFires(p) ==
    /\ p \in stopTimers
    /\ stopTimers' = stopTimers \ {p}
    /\ endedBy' = EndedAfterStop(p)
    /\ partsRef' = 0
    /\ isPlaying' = FALSE
    /\ UNCHANGED <<pipeVars, acfVars, recordingVars, startingPlays>>

NextApp ==
    \/ StartRecordingClick
    \/ StartRecordingGranted
    \/ StartRecordingDenied
    \/ StopRecording
    \/ \E r \in 1 .. Len(recorders) : OnStop(r)
    \/ \E r \in 1 .. Len(recorders) : AnalysisResolved(r)
    \/ \E r \in 1 .. Len(recorders) : AnalysisRejected(r)
    \/ PlayClick
    \/ PlayStart
    \/ StopPlaybackClick
    \/ \E p \in 1 .. Len(endedBy) : StopTimerFires(p)

----------------------------------------------------------------------------
(* Specifications *)

\* one run of analyzePitch on a decoded buffer
Init == InitPipeline /\ IdleAcf /\ IdleApp
Next == NextPipeline
Spec == Init /\ [][Next]_vars

\* one call of autocorrelationPitchDetection
InitAcfSpec == IdlePipeline /\ InitAcf /\ IdleApp
SpecAcf == InitAcfSpec /\ [][NextAcf]_vars

\* the App component under user clicks and asynchronous completions
InitAppSpec == IdlePipeline /\ IdleAcf /\ InitApp
SpecApp == InitAppSpec /\ [][NextApp]_vars

----------------------------------------------------------------------------
(* Properties of analyzePitch *)

Range(s) == {s[k] : k \in 1 .. Len(s)}

NonDecreasing(s) ==
    \A k \in 1 .. Len(s) - 1 :
        IsFiniteNumber(s[k]) /\ IsFiniteNumber(s[k + 1]) /\ Leq(s[k], s[k + 1])

\* C1: for every buffer length with totalWindows >= 1, a finished run has
\* invoked the progress observer exactly totalWindows times, with values that
\* never decrease and whose last is exactly 1.0
C1_ProgressCountAndEnd ==
    (pc = "done" /\ progressCallback /\ totalWindows >= 1) =>
        /\ Len(reported) = totalWindows
        /\ NonDecreasing(reported)
        /\ EqualsInt(reported[Len(reported)], 1)

\* C2: when totalWindows is zero or negative the progress observer is never
\* invoked, and no division by a non-positive total is performed
C2_NoProgressWithoutWindows ==
    (pc # "entry" /\ totalWindows <= 0) =>
        /\ reported = <<>>
        /\ \A k \in 1 .. Len(reported) : reported[k].den > 0

\* C3: every value passed to the progress observer is a finite fraction in
\* the closed interval [0, 1]
C3_ProgressInUnitInterval ==
    \A k \in 1 .. Len(reported) :
        /\ IsFiniteNumber(reported[k])
        /\ Leq(Divide(0, 1), reported[k])
        /\ Leq(reported[k], Divide(1, 1))

\* the offsets k * stepSize, k >= 0, with k * stepSize + windowSize <= len,
\* in increasing order
FittingOffsets(len) ==
    LET n == IF len < windowSize THEN 0 ELSE (len - windowSize) \div stepSize + 1
    IN  [k \in 1 .. n |-> (k - 1) * stepSize]

\* C4: the offsets analysed by a finished run are exactly the multiples of
\* 1024 whose window fits into the buffer (offset + 4096 <= length), each
\* once and in increasing order
C4_AnalysedOffsets ==
    pc = "done" => offsets = FittingOffsets(length)

\* C5: every analysed segment, whatever its outcome, gets exactly one
\* progress report, made after its note decision, and the k-th report carries
\* k / totalWindows
C5_OneReportPerSegment ==
    /\ Len(outcomes) = Len(offsets)
    /\ Len(offsets) = processedWindows + (IF pc \in {"silent", "voiced"} THEN 1 ELSE 0)
    /\ progressCallback =>
          /\ Len(reported) = processedWindows
          /\ \A k \in 1 .. Len(reported) : reported[k] = Divide(k, totalWindows)
    /\ ~progressCallback => reported = <<>>

\* C5 witness: a finished run with an observer in which a silent segment, a
\* segment whose naming failed, a rejected and an accepted one were reported
C5_Witness ==
    /\ pc = "done"
    /\ progressCallback
    /\ {"silent", "namingFailed", "accepted", "midiOutOfRange"} \subseteq Range(outcomes)
    /\ Len(reported) = Len(outcomes)

\* C6: whenever totalWindows computes to zero or negative, analyzePitch
\* returns an empty note sequence
C6_EmptyResultWithoutWindows ==
    (pc = "done" /\ totalWindows <= 0) => result = <<>>

AllSilentBuffer == \A k \in DOMAIN blocks : blocks[k] = 0

\* C7: notes are only appended, at most one per analysed segment; a note is
\* appended only for a segment whose raw rms is >= 0.01, whose estimate
\* exists and lies strictly between 60 and 1000 Hz, whose MIDI number is in
\* [48, 84] and whose naming did not fail; an all-silent buffer yields no
\* note and there are never more notes than analysed segments
C7_NoteStep ==
    \/ notes' = notes
    \/ /\ Len(notes') = Len(notes) + 1
       /\ SubSeq(notes', 1, Len(notes)) = notes
       /\ Len(offsets') = Len(offsets) + 1
       /\ offsets'[Len(offsets')] = i
       /\ SumSquares(i) >= silenceThreshold * silenceThreshold * windowSize
       /\ pitch' # Null
       /\ pitch' > minPitch /\ pitch' < maxPitch
       /\ FreqToMidi(pitch') >= minMidi /\ FreqToMidi(pitch') <= maxMidi
       /\ ~threw'
       /\ notes'[Len(notes')] = MidiToNote(FreqToMidi(pitch'))

C7_NotesInvariant ==
    /\ Len(notes) <= Len(offsets)
    /\ AllSilentBuffer => notes = <<>>
    /\ \A k \in 1 .. Len(offsets) - 1 : offsets[k] < offsets[k + 1]

C7_NotesOnlyFromAcceptedSegments ==
    [](C7_NotesInvariant) /\ [][C7_NoteStep]_notes

\* C7 witness: two notes were appended in a run that also rejected a segment
C7_Witness ==
    /\ Len(notes) = 2
    /\ Len(offsets) = 3
    /\ outcomes[2] # "accepted"

----------------------------------------------------------------------------
(* Properties of autocorrelationPitchDetection *)

\* C8: when the located peak lag p is strictly interior to the profile and
\* the interpolation denominator is zero, refinement is skipped: the function
\* returns sampleRate / p, never `no estimate' nor a value from an undefined lag
C8_ZeroDenominatorKeepsIntegerLag ==
    ( /\ apc = "done"
      /\ max # 0
      /\ IsInterior(correlation, peakIndex)
      /\ Denominator(correlation, peakIndex) = 0 ) =>
        /\ ~estimate.null
        /\ estimate.value.den # 0
        /\ estimate.value.num * peakIndex = sampleRate * estimate.value.den

\* the lags the search may choose from
SearchedLags == MinLag(sampleRate) .. Len(correlation) - 1

----------------------------------------------------------------------------
(* Properties of App *)

\* every stopped recording has had its analysis started and settled
AllAnalysesCompleted ==
    /\ inFlight = {}
    /\ \A r \in 1 .. Len(recorders) : recorders[r] # "stopping"

\* C10: isAnalyzing is true whenever an analyzePitch call is in flight, and
\* once all analyses have completed detectedNotes holds the result of the
\* most recently stopped recording (when its analysis resolved)
C10_AnalysisFlagAndLatestResult ==
    /\ inFlight # {} => isAnalyzing
    /\ (AllAnalysesCompleted /\ lastStopped \in analysed) => detectedNotes = lastStopped

\* C11: a playback started by playWithTone is ended only by the user's Stop
\* action or by the stop timer that the same playWithTone call scheduled; a
\* timer left over from an earlier playback never ends a later one
C11_PlaybackEndedByUserOrOwnTimer ==
    \A p \in 1 .. Len(endedBy) : endedBy[p] \in {NotEnded, ByUser, p}

\* C11 scenario: playback 1 was stopped by the user, and the timer it left
\* behind then ended playback 2
C11_StaleTimerAfterManualStop ==
    /\ Len(endedBy) >= 2
    /\ endedBy[1] = ByUser
    /\ endedBy[2] = 1

====
